---------------------------- MODULE Spec2Model ----------------------------
(***************************************************************************)
(* Lead discovery and contact-enrichment pipeline of server.js.            *)
(*                                                                         *)
(* Strings that the code inspects character by character (page content,    *)
(* e-mail addresses, links) are sequences of one-character strings, so     *)
(* that the regular expressions, toLowerCase, endsWith, includes and       *)
(* replace of the source are computed and not assumed.                     *)
(*                                                                         *)
(* The module holds one state machine per component; each specification    *)
(* drives its own component and leaves the variables of the others at      *)
(* their initial values:                                                   *)
(*   SpecMine    extractFromPage on one page content (lines 111-186)       *)
(*   SpecEnrich  extractContactInfoFromWebsite (lines 32-108)              *)
(*   SpecDisc    the scroll loop of scrapeGoogleMaps (lines 204-255)       *)
(*   SpecList    the listing loop of scrapeGoogleMaps (lines 257-345)      *)
(*   SpecRun     the listing loop with the steps of the enrichment call    *)
(*   SpecJob     the /api/scrape handler and processingState (18-24,       *)
(*               404-473), FairSpecJob the same with weak fairness         *)
(*   SpecPoll    SpecJob with the polls of /api/results (476-525)          *)
(***************************************************************************)
EXTENDS Integers, Sequences, FiniteSets, TLC

VARIABLES
    \* SpecMine: extractFromPage
    mpc, html, mined,
    \* SpecEnrich: extractContactInfoFromWebsite
    epc, visitInternalPages, homeHtml, anchors, contactInfo, internalPages,
    pageIdx, enrichResult, renderCalls, findCalls, minedLog, homeBundle,
    \* SpecDisc: the scroll loop of scrapeGoogleMaps
    dpc, targetCount, feed, i, lastCount, noNewResultsCount, businesses,
    polls, polled, prevPolled, graceWaits, stalled, panelMissing,
    \* SpecList: the listing loop of scrapeGoogleMaps
    lpc, listI, results, outcomes, extracted,
    \* SpecJob: processingState and the /api/scrape handlers
    processingState, now, handlers, responses, files, lastPoll

mineVars == <<mpc, html, mined>>
enrichVars == <<epc, visitInternalPages, homeHtml, anchors, contactInfo,
                internalPages, pageIdx, enrichResult, renderCalls, findCalls,
                minedLog, homeBundle>>
discVars == <<dpc, targetCount, feed, i, lastCount, noNewResultsCount,
              businesses, polls, polled, prevPolled, graceWaits, stalled,
              panelMissing>>
listVars == <<lpc, listI, results, outcomes, extracted>>
jobVars == <<processingState, now, handlers, responses, files, lastPoll>>
vars == <<mineVars, enrichVars, discVars, listVars, jobVars>>

\* the variables of the other components, which a component leaves alone
notMine == <<enrichVars, discVars, listVars, jobVars>>
notEnrich == <<mineVars, discVars, listVars, jobVars>>
notDisc == <<mineVars, enrichVars, listVars, jobVars>>
notList == <<mineVars, enrichVars, discVars, jobVars>>
notJob == <<mineVars, enrichVars, discVars, listVars>>

---------------------------------------------------------------------------
(* Bounds of the model *)

\* fragments per page content in SpecMine
MaxFrags == 2
\* start requests handled in one behaviour of SpecJob
MaxRequests == 2
\* readings of Date.now() in SpecJob: 1..MaxClock
MaxClock == 2
\* records a pipeline run returns in SpecJob: 0..MaxRows
MaxRows == 1

---------------------------------------------------------------------------
(* Characters and strings *)

LowerLetters ==
    <<"a", "b", "c", "d", "e", "f", "g", "h", "i", "j", "k", "l", "m",
      "n", "o", "p", "q", "r", "s", "t", "u", "v", "w", "x", "y", "z">>

UpperLetters ==
    <<"A", "B", "C", "D", "E", "F", "G", "H", "I", "J", "K", "L", "M",
      "N", "O", "P", "Q", "R", "S", "T", "U", "V", "W", "X", "Y", "Z">>

Range(f) == {f[k] : k \in DOMAIN f}

Lower == Range(LowerLetters)
Upper == Range(UpperLetters)
Alpha == Lower \cup Upper
Digit == {"0", "1", "2", "3", "4", "5", "6", "7", "8", "9"}
Alnum == Alpha \cup Digit
\* \s of the regular expressions
Space == {" ", "\n", "\t"}

\* String.prototype.toLowerCase, one character
ToLowerChar(c) ==
    IF c \in Upper
    THEN LowerLetters[CHOOSE k \in 1..26 : UpperLetters[k] = c]
    ELSE c

ToUpperChar(c) ==
    IF c \in Lower
    THEN UpperLetters[CHOOSE k \in 1..26 : LowerLetters[k] = c]
    ELSE c

\* String.prototype.toLowerCase
toLowerCase(s) == [k \in 1..Len(s) |-> ToLowerChar(s[k])]

\* String.prototype.startsWith (case-sensitive)
startsWith(s, p) == Len(p) <= Len(s) /\ SubSeq(s, 1, Len(p)) = p

\* String.prototype.endsWith (case-sensitive)
endsWith(s, p) ==
    Len(p) <= Len(s) /\ SubSeq(s, Len(s) - Len(p) + 1, Len(s)) = p

\* String.prototype.includes (case-sensitive)
includes(s, p) ==
    \E k \in 1..(Len(s) - Len(p) + 1) : SubSeq(s, k, k + Len(p) - 1) = p

\* [...new Set(arr)]: first occurrences, in order, compared exactly
RECURSIVE Dedup(_)
Dedup(arr) ==
    IF arr = <<>> THEN <<>>
    ELSE LET init == Dedup(SubSeq(arr, 1, Len(arr) - 1))
             last == arr[Len(arr)]
         IN  IF last \in Range(init) THEN init ELSE Append(init, last)

\* Array.prototype.join
RECURSIVE join(_, _)
join(arr, sep) ==
    IF arr = <<>> THEN <<>>
    ELSE IF Len(arr) = 1 THEN arr[1]
    ELSE arr[1] \o sep \o join(Tail(arr), sep)

---------------------------------------------------------------------------
(* Regular expressions with the flags gi.  A pattern is a sequence of     *)
(* items, each a character class with a greedy quantifier; an optional    *)
(* group is a sequence of alternatives tried in the order the engine      *)
(* tries them (group present first).                                      *)

\* the class of a literal character under the i flag
BothCases(c) == {ToLowerChar(c), ToUpperChar(c)}

One(cls) == [cls |-> cls, min |-> 1, many |-> FALSE]
Opt(cls) == [cls |-> cls, min |-> 0, many |-> FALSE]
Plus(cls) == [cls |-> cls, min |-> 1, many |-> TRUE]
Star(cls) == [cls |-> cls, min |-> 0, many |-> TRUE]
TwoOrMore(cls) == [cls |-> cls, min |-> 2, many |-> TRUE]
Lit(str) == [k \in 1..Len(str) |-> One(BothCases(str[k]))]

\* the least element of a non-empty set of numbers
Least(S) == CHOOSE x \in S : \A y \in S : x <= y

\* the number of characters of s from pos on that lie in cls, at most cap
RunLen(cls, s, pos, cap) ==
    LET stop == {j \in pos..Len(s) : s[j] \notin cls} \cup {Len(s) + 1}
        run == Least(stop) - pos
    IN  IF run < cap THEN run ELSE cap

\* Backtracking match of items[k..] at pos: the position after the match,
\* or 0 when there is none.
RECURSIVE MatchFrom(_, _, _, _)
RECURSIVE TryCounts(_, _, _, _, _)
MatchFrom(items, k, s, pos) ==
    IF k > Len(items) THEN pos
    ELSE LET it == items[k]
             run == RunLen(it.cls, s, pos, IF it.many THEN Len(s) ELSE 1)
         IN  TryCounts(items, k, s, pos, run)

TryCounts(items, k, s, pos, n) ==
    IF n < items[k].min THEN 0
    ELSE LET r == MatchFrom(items, k + 1, s, pos + n)
         IN  IF r # 0 THEN r ELSE TryCounts(items, k, s, pos, n - 1)

\* the first alternative that matches at pos
RECURSIVE MatchAlt(_, _, _)
MatchAlt(alts, s, pos) ==
    IF alts = <<>> THEN 0
    ELSE LET r == MatchFrom(Head(alts), 1, s, pos)
         IN  IF r # 0 THEN r ELSE MatchAlt(Tail(alts), s, pos)

\* the first position from pos on where a match starts, 0 when none does
NextMatch(alts, s, pos) ==
    LET starts == {p \in pos..Len(s) : MatchAlt(alts, s, p) > p}
    IN  IF starts = {} THEN 0 ELSE Least(starts)

\* String.prototype.match with a g regex (|| []): all matches, left to right
RECURSIVE MatchAllFrom(_, _, _)
MatchAllFrom(alts, s, pos) ==
    LET p == NextMatch(alts, s, pos)
    IN  IF p = 0 THEN <<>>
        ELSE LET e == MatchAlt(alts, s, p)
             IN  <<SubSeq(s, p, e - 1)>> \o MatchAllFrom(alts, s, e)

match(s, alts) == MatchAllFrom(alts, s, 1)

\* String.prototype.replace with a g regex and a fixed replacement
RECURSIVE ReplaceFrom(_, _, _, _)
ReplaceFrom(alts, s, rep, pos) ==
    LET p == NextMatch(alts, s, pos)
    IN  IF p = 0 THEN SubSeq(s, pos, Len(s))
        ELSE SubSeq(s, pos, p - 1) \o rep
             \o ReplaceFrom(alts, s, rep, MatchAlt(alts, s, p))

replace(s, alts, rep) == ReplaceFrom(alts, s, rep, 1)

---------------------------------------------------------------------------
(* extractFromPage, lines 127-181: what it computes from the page content *)

\* [a-zA-Z0-9._%+-]
LocalCls == Alnum \cup {".", "_", "%", "+", "-"}
\* [a-zA-Z0-9.-]
DomainCls == Alnum \cup {".", "-"}
\* [a-zA-Z0-9._]
InstaCls == Alnum \cup {".", "_"}

\* /[a-zA-Z0-9._%+-]+@[a-zA-Z0-9.-]+\.[a-zA-Z]{2,}/gi
EmailRe ==
    << <<Plus(LocalCls), One({"@"}), Plus(DomainCls), One({"."}),
         TwoOrMore(Alpha)>> >>

\* /\s*\[\s*at\s*\]\s*/gi
AtRe ==
    << <<Star(Space), One({"["}), Star(Space)>> \o Lit(<<"a", "t">>)
       \o <<Star(Space), One({"]"}), Star(Space)>> >>

\* /\s*\[\s*dot\s*\]\s*/gi
DotRe ==
    << <<Star(Space), One({"["}), Star(Space)>> \o Lit(<<"d", "o", "t">>)
       \o <<Star(Space), One({"]"}), Star(Space)>> >>

\* /[a-zA-Z0-9._%+-]+\s*\[\s*at\s*\]\s*[a-zA-Z0-9.-]+\s*\[\s*dot\s*\]\s*[a-zA-Z]{2,}/gi
ObfuscatedRe ==
    << <<Plus(LocalCls)>> \o AtRe[1] \o <<Plus(DomainCls)>> \o DotRe[1]
       \o <<TwoOrMore(Alpha)>> >>

\* (?:https?:\/\/)?
SchemeRe == Lit(<<"h", "t", "t", "p">>) \o <<Opt(BothCases("s"))>>
            \o Lit(<<":", "/", "/">>)
\* (?:www\.)?
WwwRe == Lit(<<"w", "w", "w", ".">>)

\* the two optional groups of a link pattern, as alternatives
LinkRe(host, cls) ==
    LET rest == Lit(host) \o <<Plus(cls)>>
    IN  <<SchemeRe \o WwwRe \o rest, SchemeRe \o rest, WwwRe \o rest, rest>>

\* /(?:https?:\/\/)?(?:www\.)?facebook\.com\/[a-zA-Z0-9._%+-]+/gi
FacebookRe ==
    LinkRe(<<"f", "a", "c", "e", "b", "o", "o", "k", ".", "c", "o", "m", "/">>,
           LocalCls)

\* /(?:https?:\/\/)?(?:www\.)?instagram\.com\/[a-zA-Z0-9._]+/gi
InstagramRe ==
    LinkRe(<<"i", "n", "s", "t", "a", "g", "r", "a", "m", ".", "c", "o", "m", "/">>,
           InstaCls)

\* the filter of lines 133-141
KeepEmail(email) ==
    LET lower == toLowerCase(email)
    IN  /\ ~endsWith(lower, <<".", "p", "n", "g">>)
        /\ ~endsWith(lower, <<".", "j", "p", "g">>)
        /\ ~endsWith(lower, <<".", "j", "p", "e", "g">>)
        /\ ~includes(lower, <<"e", "x", "a", "m", "p", "l", "e">>)
        /\ ~includes(lower, <<"t", "e", "s", "t", "@">>)
        /\ includes(lower, <<".">>)

\* lines 131-142: the plain pass
plainEmails(content) == Dedup(SelectSeq(match(content, EmailRe), KeepEmail))

\* line 146: [at] -> @ and [dot] -> .
Deobfuscate(email) ==
    replace(replace(email, AtRe, <<"@">>), DotRe, <<".">>)

\* lines 145-146: the de-obfuscated pass
obfuscatedEmails(content) ==
    LET found == match(content, ObfuscatedRe)
    IN  [k \in 1..Len(found) |-> Deobfuscate(found[k])]

\* line 148
emails(content) == Dedup(plainEmails(content) \o obfuscatedEmails(content))

\* lines 155, 164: link.startsWith('http') ? link : 'https://' + link
Absolute(link) ==
    IF startsWith(link, <<"h", "t", "t", "p">>) THEN link
    ELSE <<"h", "t", "t", "p", "s", ":", "/", "/">> \o link

\* line 156
KeepFacebook(link) ==
    /\ ~includes(link, <<"/", "l", "o", "g", "i", "n">>)
    /\ ~includes(link, <<"/", "s", "h", "a", "r", "e">>)

\* lines 153-157
facebook(content) ==
    LET found == match(content, FacebookRe)
    IN  Dedup(SelectSeq([k \in 1..Len(found) |-> Absolute(found[k])],
                        KeepFacebook))

\* lines 162-165
instagramLinks(content) ==
    LET found == match(content, InstagramRe)
    IN  Dedup([k \in 1..Len(found) |-> Absolute(found[k])])

\* lines 167-172
IsProfile(link) ==
    /\ ~includes(link, <<"/", "p", "/">>)
    /\ ~includes(link, <<"/", "r", "e", "e", "l", "/">>)
    /\ ~includes(link, <<"/", "t", "v", "/">>)
    /\ ~includes(link, <<"/", "s", "t", "o", "r", "i", "e", "s", "/">>)

profiles(content) == SelectSeq(instagramLinks(content), IsProfile)

\* lines 174-177
instagram(content) ==
    IF profiles(content) = <<>> /\ instagramLinks(content) # <<>>
    THEN <<instagramLinks(content)[1]>>
    ELSE profiles(content)

\* lines 184, 75, 298: { emails: [], facebook: [], instagram: [] }
EmptyBundle == [emails |-> <<>>, facebook |-> <<>>, instagram |-> <<>>]

\* line 181: what extractFromPage returns for a page that rendered
ExtractContacts(content) ==
    [emails |-> emails(content), facebook |-> facebook(content),
     instagram |-> instagram(content)]

---------------------------------------------------------------------------
(* SpecMine: extractFromPage(page, url) on one rendered page.             *)
(* The page content is a few fragments separated by blanks.               *)

\* the pieces of text a page content is made of
Fragments ==
    << <<"i", "n", "f", "o", "@", "f", "i", "r", "m", ".", "o", "r", "g">>,
       <<"I", "n", "f", "o", "@", "F", "i", "r", "m", ".", "o", "r", "g">>,
       <<"l", "o", "g", "o", "@", "2", "x", ".", "p", "n", "g">>,
       <<"t", "e", "s", "t", "@", "f", "i", "r", "m", ".", "o", "r", "g">>,
       <<"s", "a", "l", "e", "s", "[", "a", "t", "]", "e", "x", "a", "m", "p", "l", "e", "[", "d", "o", "t", "]", "c", "o", "m">>,
       <<"i", "n", "f", "o", "[", "a", "t", "]", "f", "i", "r", "m", "[", "d", "o", "t", "]", "o", "r", "g">>,
       <<"f", "a", "c", "e", "b", "o", "o", "k", ".", "c", "o", "m", "/", "a", "c", "m", "e">>,
       <<"f", "a", "c", "e", "b", "o", "o", "k", ".", "c", "o", "m", "/", "l", "o", "g", "i", "n">>,
       <<"i", "n", "s", "t", "a", "g", "r", "a", "m", ".", "c", "o", "m", "/", "b", "r", "a", "n", "d", "n", "a", "m", "e">>,
       <<"i", "n", "s", "t", "a", "g", "r", "a", "m", ".", "c", "o", "m", "/", "p", "/", "x", "y", "z">> >>

\* all sequences over S of length at most n
SeqsUpTo(S, n) == UNION {[1..k -> S] : k \in 0..n}

\* the page contents of the model
Contents ==
    {join([k \in DOMAIN fs |-> Fragments[fs[k]]], <<" ">>) :
        fs \in SeqsUpTo(DOMAIN Fragments, MaxFrags)}

IdleMine ==
    /\ mpc = "idle"
    /\ html = <<>>
    /\ mined = EmptyBundle

\* line 111: extractFromPage is called for a page with some content
MineInit ==
    /\ mpc = "goto"
    /\ html \in Contents
    /\ mined = EmptyBundle

\* lines 112-181: the page renders and its content is mined
ExtractFromPageOk ==
    /\ mpc = "goto"
    /\ mpc' = "returned"
    /\ mined' = ExtractContacts(html)
    /\ UNCHANGED <<html, notMine>>

\* lines 182-185: goto, evaluate or content throws; an empty bundle
ExtractFromPageFail ==
    /\ mpc = "goto"
    /\ mpc' = "failed"
    /\ mined' = EmptyBundle
    /\ UNCHANGED <<html, notMine>>

---------------------------------------------------------------------------
(* SpecEnrich: extractContactInfoFromWebsite(url, visitInternalPages),    *)
(* lines 32-79, with findInternalPages, lines 82-108.                     *)

\* anchors on the homepage in SpecEnrich
MaxLinks == 4

\* line 57: internalPages.slice(0, 3)
InternalPageLimit == 3

\* line 100: .slice(0, 5)
CandidateLimit == 5

\* the homepage in minedLog, where an internal page is named by its anchor
HomePage == 0

\* the website being enriched
BaseUrl ==
    <<"h", "t", "t", "p", "s", ":", "/", "/", "a", ".", "c", "o", "/">>

\* link.href of the anchors a homepage may hold
Hrefs ==
    << <<"h", "t", "t", "p", "s", ":", "/", "/", "a", ".", "c", "o", "/", "c", "o", "n", "t", "a", "c", "t">>,
       <<"h", "t", "t", "p", "s", ":", "/", "/", "a", ".", "c", "o", "/", "a", "b", "o", "u", "t">>,
       <<"h", "t", "t", "p", "s", ":", "/", "/", "A", ".", "c", "o", "/", "T", "e", "a", "m">>,
       <<"h", "t", "t", "p", "s", ":", "/", "/", "a", ".", "c", "o", "/", "s", "t", "a", "f", "f">>,
       <<"h", "t", "t", "p", "s", ":", "/", "/", "b", ".", "c", "o", "/", "c", "o", "n", "t", "a", "c", "t">> >>

\* line 89
keywords ==
    << <<"c", "o", "n", "t", "a", "c", "t">>,
       <<"a", "b", "o", "u", "t">>,
       <<"t", "e", "a", "m">>,
       <<"s", "t", "a", "f", "f">>,
       <<"r", "e", "a", "c", "h">>,
       <<"g", "e", "t", "-", "i", "n", "-", "t", "o", "u", "c", "h">> >>

\* new URL(href) parses: a scheme, a colon
ValidUrl(href) ==
    \E p \in 2..Len(href) :
        /\ href[p] = ":"
        /\ href[1] \in Alpha
        /\ \A k \in 1..(p - 1) : href[k] \in Alnum \cup {"+", "-", "."}

\* new URL(href).hostname of a URL that parses: the authority up to the
\* port or path, in lower case
Hostname(href) ==
    LET p == Least({k \in 1..Len(href) : href[k] = ":"})
        from == p + 3
        stop == {k \in from..Len(href) : href[k] \in {"/", "?", "#", ":"}}
                    \cup {Len(href) + 1}
    IN  IF SubSeq(href, p + 1, p + 2) = <<"/", "/">>
        THEN toLowerCase(SubSeq(href, from, Least(stop) - 1))
        ELSE <<>>

\* lines 93-99: the filter of findInternalPages
IsCandidate(href, base) ==
    /\ ValidUrl(href)
    /\ Hostname(href) = Hostname(base)
    /\ \E k \in DOMAIN keywords : includes(toLowerCase(href), keywords[k])

\* Array.prototype.slice(0, n)
slice(arr, n) == SubSeq(arr, 1, IF Len(arr) < n THEN Len(arr) ELSE n)

\* lines 93-99 on the anchors of the model: anchor k has href Hrefs[k]
CandidateAnchor == [k \in DOMAIN Hrefs |-> IsCandidate(Hrefs[k], BaseUrl)]

\* lines 86-103: what findInternalPages returns when the homepage renders.
\* An anchor is named by the index of its href in Hrefs, whose entries
\* differ, so equal names are equal hrefs.
findInternalPages(links) ==
    LET IsCand(a) == CandidateAnchor[a]
    IN  Dedup(slice(SelectSeq(links, IsCand), CandidateLimit))

\* the content of the model's website, by anchor
SiteContent(a) ==
    CASE a = 1 -> <<"i", "n", "f", "o", "@", "f", "i", "r", "m", ".", "o", "r", "g">>
      [] a = 2 -> <<"f", "a", "c", "e", "b", "o", "o", "k", ".", "c", "o", "m", "/", "a", "c", "m", "e">>
      [] a = 3 -> <<"i", "n", "s", "t", "a", "g", "r", "a", "m", ".", "c", "o", "m", "/", "b", "r", "a", "n", "d", "n", "a", "m", "e">>
      [] a = 4 -> <<"I", "n", "f", "o", "@", "F", "i", "r", "m", ".", "o", "r", "g", " ", "i", "n", "s", "t", "a", "g", "r", "a", "m", ".", "c", "o", "m", "/", "p", "/", "x", "y", "z">>
      [] OTHER -> <<>>

\* the contents the homepage may have
HomeContents ==
    { <<>>,
      <<"i", "n", "f", "o", "@", "f", "i", "r", "m", ".", "o", "r", "g">>,
      <<"i", "n", "f", "o", "@", "f", "i", "r", "m", ".", "o", "r", "g", " ", "f", "a", "c", "e", "b", "o", "o", "k", ".", "c", "o", "m", "/", "a", "c", "m", "e", " ", "i", "n", "s", "t", "a", "g", "r", "a", "m", ".", "c", "o", "m", "/", "b", "r", "a", "n", "d", "n", "a", "m", "e">> }

\* extractFromPage on the pages of the model's website
PageBundle ==
    [c \in HomeContents \cup {SiteContent(k) : k \in DOMAIN Hrefs} |->
        ExtractContacts(c)]

\* lines 111-186: extractFromPage, a bundle whether or not the page renders
extractFromPage(content, ok) == IF ok THEN PageBundle[content] ELSE EmptyBundle

\* line 53: the homepage bundle lacks a channel and internal pages are wanted
NeedInternalPages_NoEarlyExit(info, visit) == visit

NeedInternalPages(info, visit) ==
    visit /\ (Len(info.emails) = 0 \/ Len(info.facebook) = 0
              \/ Len(info.instagram) = 0)

\* line 57: the internal pages the loop visits
PagesToVisit_NoCap(pages) == pages

PagesToVisit(pages) == slice(pages, InternalPageLimit)

\* lines 63-65: the merge of one internal page into contactInfo
Merge(info, internalInfo) ==
    [emails |-> Dedup(info.emails \o internalInfo.emails),
     facebook |-> Dedup(info.facebook \o internalInfo.facebook),
     instagram |-> Dedup(info.instagram \o internalInfo.instagram)]

\* lines 57-69: the loop goes on to the next page whatever happened
NextPage_AbortOnFailure(idx, ok) == IF ok THEN idx + 1 ELSE InternalPageLimit + 1

NextPage(idx, ok) == idx + 1

IdleEnrich ==
    /\ epc = "idle"
    /\ visitInternalPages = TRUE
    /\ homeHtml = <<>>
    /\ anchors = <<>>
    /\ contactInfo = EmptyBundle
    /\ internalPages = <<>>
    /\ pageIdx = 0
    /\ enrichResult = EmptyBundle
    /\ renderCalls = 0
    /\ findCalls = 0
    /\ minedLog = <<>>
    /\ homeBundle = EmptyBundle

\* line 32: the call, with the website's homepage and anchors
EnrichInit ==
    /\ epc = "launch"
    /\ visitInternalPages \in BOOLEAN
    /\ homeHtml \in HomeContents
    /\ anchors \in SeqsUpTo(DOMAIN Hrefs, MaxLinks)
    /\ contactInfo = EmptyBundle
    /\ internalPages = <<>>
    /\ pageIdx = 0
    /\ enrichResult = EmptyBundle
    /\ renderCalls = 0
    /\ findCalls = 0
    /\ minedLog = <<>>
    /\ homeBundle = EmptyBundle

\* lines 33-36: puppeteer.launch, outside the try: a failure is thrown out
EnrichLaunch ==
    /\ epc = "launch"
    /\ \E ok \in BOOLEAN : epc' = IF ok THEN "setup" ELSE "thrown"
    /\ UNCHANGED <<visitInternalPages, homeHtml, anchors, contactInfo,
                   internalPages, pageIdx, enrichResult, renderCalls,
                   findCalls, minedLog, homeBundle, notEnrich>>

\* lines 39-47: newPage, setUserAgent, setRequestInterception; a failure is
\* caught at line 73 and an empty bundle returned
EnrichSetup ==
    /\ epc = "setup"
    /\ \E ok \in BOOLEAN : epc' = IF ok THEN "home" ELSE "closing"
    /\ UNCHANGED <<visitInternalPages, homeHtml, anchors, contactInfo,
                   internalPages, pageIdx, enrichResult, renderCalls,
                   findCalls, minedLog, homeBundle, notEnrich>>

\* lines 50-53: the homepage is mined; then either internal pages are
\* looked for or the bundle is returned (line 72)
EnrichHome ==
    /\ epc = "home"
    /\ \E ok \in BOOLEAN :
        LET info == extractFromPage(homeHtml, ok)
        IN  /\ contactInfo' = info
            /\ homeBundle' = info
            /\ minedLog' = Append(minedLog, [url |-> HomePage, ok |-> ok])
            /\ IF NeedInternalPages(info, visitInternalPages)
               THEN epc' = "find" /\ UNCHANGED enrichResult
               ELSE epc' = "closing" /\ enrichResult' = info
    /\ renderCalls' = renderCalls + 1
    /\ UNCHANGED <<visitInternalPages, homeHtml, anchors, internalPages,
                   pageIdx, findCalls, notEnrich>>

\* line 56 with lines 82-108: the homepage is rendered again and its
\* anchors filtered; a failure gives no internal pages
EnrichFind ==
    /\ epc = "find"
    /\ \E ok \in BOOLEAN :
        internalPages' = IF ok THEN findInternalPages(anchors)
                         ELSE <<>>
    /\ renderCalls' = renderCalls + 1
    /\ findCalls' = findCalls + 1
    /\ pageIdx' = 1
    /\ epc' = "loop"
    /\ UNCHANGED <<visitInternalPages, homeHtml, anchors, contactInfo,
                   enrichResult, minedLog, homeBundle, notEnrich>>

\* lines 57-69: one internal page is mined and merged
EnrichInternal ==
    /\ epc = "loop"
    /\ pageIdx <= Len(PagesToVisit(internalPages))
    /\ \E ok \in BOOLEAN :
        LET internalUrl == internalPages[pageIdx]
            internalInfo == extractFromPage(SiteContent(internalUrl), ok)
        IN  /\ contactInfo' = Merge(contactInfo, internalInfo)
            /\ minedLog' = Append(minedLog, [url |-> internalUrl, ok |-> ok])
            /\ pageIdx' = NextPage(pageIdx, ok)
    /\ renderCalls' = renderCalls + 1
    /\ UNCHANGED <<epc, visitInternalPages, homeHtml, anchors, internalPages,
                   enrichResult, findCalls, homeBundle, notEnrich>>

\* line 72: the loop is over, the merged bundle is returned
EnrichReturn ==
    /\ epc = "loop"
    /\ pageIdx > Len(PagesToVisit(internalPages))
    /\ enrichResult' = contactInfo
    /\ epc' = "closing"
    /\ UNCHANGED <<visitInternalPages, homeHtml, anchors, contactInfo,
                   internalPages, pageIdx, renderCalls, findCalls, minedLog,
                   homeBundle, notEnrich>>

\* lines 76-78: browser.close in the finally; its failure is thrown out
EnrichClose ==
    /\ epc = "closing"
    /\ \E ok \in BOOLEAN : epc' = IF ok THEN "returned" ELSE "thrown"
    /\ UNCHANGED <<visitInternalPages, homeHtml, anchors, contactInfo,
                   internalPages, pageIdx, enrichResult, renderCalls,
                   findCalls, minedLog, homeBundle, notEnrich>>

---------------------------------------------------------------------------
(* SpecDisc: the scroll loop of scrapeGoogleMaps, lines 204-255.          *)

\* a.hfpxzc anchors the results feed may hold
MaxFeed == 3

\* the largest targetCount
MaxTarget == 4

MAX_SCROLLS_OneMore == 20 + 1

\* line 205
MAX_SCROLLS == 20

\* getAttribute('aria-label') of an anchor without the attribute
NullAttr == "<null>"

\* the a.hfpxzc anchors of the model
FeedAnchors ==
    { [label |-> "Bakery A", href |-> "maps/place/a"],
      [label |-> NullAttr, href |-> "maps/place/b"] }

\* what the results feed may hold
Feeds == SeqsUpTo(FeedAnchors, MaxFeed)

\* lines 249-252: the stub of one anchor
Stub(a) ==
    [name |-> IF a.label = NullAttr THEN "" ELSE a.label, link |-> a.href]

\* line 234: noNewResultsCount >= 2
StallReached_OneMore(n) == n >= 3

StallReached(n) == n >= 2

AfterGrowth_Kept(n) == n

\* line 241: the counter after a round in which the count changed
AfterGrowth(n) == 0

\* line 258: the stubs the listing loop processes
StubsToProcess(found, target) ==
    SubSeq(found, 1, IF Len(found) < target THEN Len(found) ELSE target)

IdleDisc ==
    /\ dpc = "idle"
    /\ targetCount = 0
    /\ feed = <<>>
    /\ i = 0
    /\ lastCount = 0
    /\ noNewResultsCount = 0
    /\ businesses = <<>>
    /\ polls = 0
    /\ polled = 0
    /\ prevPolled = 0
    /\ graceWaits = 0
    /\ stalled = TRUE
    /\ panelMissing = FALSE

\* lines 204-207: the results page is open, the loop starts
DiscInit ==
    /\ dpc = "loop"
    /\ targetCount \in 1..MaxTarget
    /\ feed \in Feeds
    /\ i = 0
    /\ lastCount = 0
    /\ noNewResultsCount = 0
    /\ businesses = <<>>
    /\ polls = 0
    /\ polled = 0
    /\ prevPolled = 0
    /\ graceWaits = 0
    /\ stalled = TRUE
    /\ panelMissing = FALSE

\* lines 210-214: the feed panel is not there, the loop is left
ScrollNoPanel ==
    /\ dpc = "loop"
    /\ i < MAX_SCROLLS
    /\ dpc' = "collect"
    /\ panelMissing' = TRUE
    /\ UNCHANGED <<targetCount, feed, i, lastCount, noNewResultsCount,
                   businesses, polls, polled, prevPolled, graceWaits,
                   stalled, notDisc>>

\* lines 210-244: one round: scroll, wait while the feed loads, count,
\* and decide
ScrollRound ==
    /\ dpc = "loop"
    /\ i < MAX_SCROLLS
    /\ \E loaded \in Feeds :
        LET currentCount == Len(loaded)
        IN  /\ feed' = loaded
            /\ polls' = polls + 1
            /\ polled' = currentCount
            /\ prevPolled' = polled
            /\ stalled' = (stalled /\ (polls = 0 \/ currentCount = polled))
            /\ IF currentCount >= targetCount
               THEN /\ dpc' = "collect"
                    /\ UNCHANGED <<i, lastCount, noNewResultsCount,
                                   graceWaits>>
               ELSE IF currentCount = lastCount
               THEN /\ noNewResultsCount' = noNewResultsCount + 1
                    /\ IF StallReached(noNewResultsCount')
                       THEN dpc' = "collect" /\ UNCHANGED graceWaits
                       ELSE dpc' = "grace" /\ graceWaits' = graceWaits + 1
                    /\ UNCHANGED <<i, lastCount>>
               ELSE /\ noNewResultsCount' = AfterGrowth(noNewResultsCount)
                    /\ lastCount' = currentCount
                    /\ i' = i + 1
                    /\ dpc' = "loop"
                    /\ UNCHANGED graceWaits
    /\ UNCHANGED <<targetCount, businesses, panelMissing, notDisc>>

\* lines 238-244: the 30 s wait after a first round without growth, during
\* which the feed may load; then the next round
GraceWait ==
    /\ dpc = "grace"
    /\ \E loaded \in Feeds : feed' = loaded
    /\ i' = i + 1
    /\ dpc' = "loop"
    /\ UNCHANGED <<targetCount, lastCount, noNewResultsCount, businesses,
                   polls, polled, prevPolled, graceWaits, stalled,
                   panelMissing, notDisc>>

\* line 209: the loop ends after MAX_SCROLLS rounds
ScrollsExhausted ==
    /\ dpc = "loop"
    /\ i >= MAX_SCROLLS
    /\ dpc' = "collect"
    /\ UNCHANGED <<targetCount, feed, i, lastCount, noNewResultsCount,
                   businesses, polls, polled, prevPolled, graceWaits,
                   stalled, panelMissing, notDisc>>

\* lines 247-255: the anchors in the page become the businesses
Collect ==
    /\ dpc = "collect"
    /\ businesses' = [k \in DOMAIN feed |-> Stub(feed[k])]
    /\ dpc' = "done"
    /\ UNCHANGED <<targetCount, feed, i, lastCount, noNewResultsCount,
                   polls, polled, prevPolled, graceWaits, stalled,
                   panelMissing, notDisc>>

---------------------------------------------------------------------------
(* SpecList: the listing loop of scrapeGoogleMaps, lines 257-345.         *)

\* extracted is what the page of the listing processed last held and what
\* enrichment of its website gives.

\* what the three evaluate calls of lines 273-295 find on a listing's page
Details ==
    { [phone |-> "", website |-> "", rating |-> "", reviews |-> ""],
      [phone |-> "+1 555 0100", website |-> "https://a.co/",
       rating |-> "4.5", reviews |-> "1,234"] }

\* what extractContactInfoFromWebsite gives at line 302: a bundle, or an
\* exception (launch or close failed, lines 33 and 77)
EnrichOutcomes ==
    { [thrown |-> TRUE, info |-> EmptyBundle],
      [thrown |-> FALSE, info |-> EmptyBundle],
      [thrown |-> FALSE,
       info |-> ExtractContacts(SiteContent(4) \o <<" ">> \o SiteContent(2))] }

\* the awaits of lines 263-323 that may throw, and "none"
FailPoints ==
    {"none", "newPage", "goto", "phone", "website", "rating", "close"}

\* lines 311-321: the record of a listing that was processed
FullRecord(business, detail, info) ==
    [name |-> business.name,
     maps_link |-> business.link,
     phone |-> detail.phone,
     website |-> detail.website,
     rating |-> detail.rating,
     reviews |-> detail.reviews,
     emails |-> join(info.emails, <<",", " ">>),
     facebook |-> join(info.facebook, <<",", " ">>),
     instagram |-> join(info.instagram, <<",", " ">>)]

\* lines 326-336: the record of a listing whose processing threw
EmptyRecord(business) ==
    [name |-> business.name,
     maps_link |-> business.link,
     phone |-> "",
     website |-> "",
     rating |-> "",
     reviews |-> "",
     emails |-> <<>>,
     facebook |-> <<>>,
     instagram |-> <<>>]

\* lines 298-309: the contact bundle of a listing
ContactInfoFor(detail, enrich) ==
    IF detail.website # "" /\ ~enrich.thrown THEN enrich.info ELSE EmptyBundle

\* a listing page on which nothing is found, and no enrichment
NothingExtracted ==
    [detail |-> [phone |-> "", website |-> "", rating |-> "", reviews |-> ""],
     enrich |-> [thrown |-> FALSE, info |-> EmptyBundle]]

\* lines 262-337: what one iteration pushes onto results
Pushed(business, detail, enrich, failAt) ==
    IF failAt \in {"newPage", "goto", "phone", "website", "rating"}
    THEN <<EmptyRecord(business)>>
    ELSE IF failAt = "close"
    THEN <<FullRecord(business, detail, ContactInfoFor(detail, enrich)),
           EmptyRecord(business)>>
    ELSE <<FullRecord(business, detail, ContactInfoFor(detail, enrich))>>

IdleList ==
    /\ lpc = "idle"
    /\ listI = 0
    /\ results = <<>>
    /\ outcomes = <<>>
    /\ extracted = NothingExtracted

\* line 257, after a scroll loop that found no feed panel in its first
\* round and took the anchors that were in the page
ListInit ==
    /\ dpc = "done"
    /\ targetCount \in 1..MaxTarget
    /\ feed \in Feeds
    /\ businesses = [k \in DOMAIN feed |-> Stub(feed[k])]
    /\ i = 0
    /\ lastCount = 0
    /\ noNewResultsCount = 0
    /\ polls = 0
    /\ polled = 0
    /\ prevPolled = 0
    /\ graceWaits = 0
    /\ stalled = TRUE
    /\ panelMissing = TRUE
    /\ lpc = "loop"
    /\ listI = 0
    /\ results = <<>>
    /\ outcomes = <<>>
    /\ extracted = NothingExtracted

\* lines 258-338: one listing is processed
ProcessListing ==
    /\ lpc = "loop"
    /\ listI < Len(StubsToProcess(businesses, targetCount))
    /\ \E detail \in Details, enrich \in EnrichOutcomes, failAt \in FailPoints :
        /\ results' = results \o Pushed(businesses[listI + 1], detail,
                                        enrich, failAt)
        /\ outcomes' = Append(outcomes, failAt)
        /\ extracted' = [detail |-> detail, enrich |-> enrich]
    /\ listI' = listI + 1
    /\ UNCHANGED <<lpc, notList>>

\* lines 340-341: the loop is over, results is returned
ListReturn ==
    /\ lpc = "loop"
    /\ listI >= Len(StubsToProcess(businesses, targetCount))
    /\ lpc' = "closing"
    /\ UNCHANGED <<listI, results, outcomes, extracted, notList>>

\* lines 342-344: browser.close in the finally; its failure replaces the
\* return by an exception
ListClose ==
    /\ lpc = "closing"
    /\ \E ok \in BOOLEAN : lpc' = IF ok THEN "returned" ELSE "thrown"
    /\ UNCHANGED <<listI, results, outcomes, extracted, notList>>

---------------------------------------------------------------------------
(* SpecRun: the listing loop of scrapeGoogleMaps with the call of          *)
(* extractContactInfoFromWebsite at line 302 taken step by step: while     *)
(* lpc = "enriching" the steps are those of SpecEnrich.                    *)

\* listings in the feed of SpecRun
MaxListings == 2

\* anchors on a homepage in SpecRun
RunLinks == 1

\* the awaits of lines 263-295 that may throw, and "none"
DetailFailPoints == {"none", "newPage", "goto", "phone", "website", "rating"}

\* line 257, as ListInit, with the third argument of scrapeGoogleMaps
RunInit ==
    /\ dpc = "done"
    /\ targetCount \in 1..MaxListings
    /\ feed \in SeqsUpTo(FeedAnchors, MaxListings)
    /\ businesses = [k \in DOMAIN feed |-> Stub(feed[k])]
    /\ i = 0
    /\ lastCount = 0
    /\ noNewResultsCount = 0
    /\ polls = 0
    /\ polled = 0
    /\ prevPolled = 0
    /\ graceWaits = 0
    /\ stalled = TRUE
    /\ panelMissing = TRUE
    /\ lpc = "loop"
    /\ listI = 0
    /\ results = <<>>
    /\ outcomes = <<>>
    /\ extracted = NothingExtracted
    /\ epc = "idle"
    /\ visitInternalPages \in BOOLEAN
    /\ homeHtml = <<>>
    /\ anchors = <<>>
    /\ contactInfo = EmptyBundle
    /\ internalPages = <<>>
    /\ pageIdx = 0
    /\ enrichResult = EmptyBundle
    /\ renderCalls = 0
    /\ findCalls = 0
    /\ minedLog = <<>>
    /\ homeBundle = EmptyBundle

\* lines 262-323 for a listing whose detail extraction throws or whose page
\* has no website: the record is pushed without enrichment
RunListingNoEnrich ==
    /\ lpc = "loop"
    /\ listI < Len(StubsToProcess(businesses, targetCount))
    /\ \E detail \in Details, failAt \in DetailFailPoints \cup {"close"} :
        /\ failAt \in {"none", "close"} => detail.website = ""
        /\ results' = results \o Pushed(businesses[listI + 1], detail,
                                        NothingExtracted.enrich, failAt)
        /\ outcomes' = Append(outcomes, failAt)
        /\ extracted' = [detail |-> detail, enrich |-> NothingExtracted.enrich]
    /\ listI' = listI + 1
    /\ UNCHANGED <<lpc, notList>>

\* lines 262-302 for a listing with a website: the details are extracted
\* and extractContactInfoFromWebsite is called
RunEnrichCall ==
    /\ lpc = "loop"
    /\ listI < Len(StubsToProcess(businesses, targetCount))
    /\ \E detail \in Details :
        /\ detail.website # ""
        /\ extracted' = [detail |-> detail, enrich |-> NothingExtracted.enrich]
    /\ lpc' = "enriching"
    /\ epc' = "launch"
    /\ homeHtml' \in HomeContents
    /\ anchors' \in SeqsUpTo(DOMAIN Hrefs, RunLinks)
    /\ contactInfo' = EmptyBundle
    /\ internalPages' = <<>>
    /\ pageIdx' = 0
    /\ enrichResult' = EmptyBundle
    /\ renderCalls' = 0
    /\ findCalls' = 0
    /\ minedLog' = <<>>
    /\ homeBundle' = EmptyBundle
    /\ UNCHANGED <<visitInternalPages, listI, results, outcomes, mineVars,
                   discVars, jobVars>>

\* lines 302-337: extractContactInfoFromWebsite has returned or thrown; the
\* record is pushed and the listing's page closed
RunEnrichDone ==
    /\ lpc = "enriching"
    /\ epc \in {"returned", "thrown"}
    /\ \E closeOk \in BOOLEAN :
        LET enrich == [thrown |-> epc = "thrown", info |-> enrichResult]
            failAt == IF closeOk THEN "none" ELSE "close"
        IN  /\ results' = results \o Pushed(businesses[listI + 1],
                                            extracted.detail, enrich, failAt)
            /\ outcomes' = Append(outcomes, failAt)
            /\ extracted' = [extracted EXCEPT !.enrich = enrich]
    /\ listI' = listI + 1
    /\ lpc' = "loop"
    /\ epc' = "idle"
    /\ UNCHANGED <<visitInternalPages, homeHtml, anchors, contactInfo,
                   internalPages, pageIdx, enrichResult, renderCalls,
                   findCalls, minedLog, homeBundle, mineVars, discVars,
                   jobVars>>

---------------------------------------------------------------------------
(* SpecJob: processingState (lines 18-24) and the handler of               *)
(* POST /api/scrape (lines 404-473).  Every accepted request owns one      *)
(* entry of handlers, which walks through the awaits of the handler and    *)
(* of scrapeGoogleMaps; the code between two awaits is one step.           *)

\* JavaScript values of the request body and of processingState
Undefined == [t |-> "undefined"]
Null == [t |-> "null"]
NaN == [t |-> "NaN"]
Num(n) == [t |-> "number", v |-> n]
Str(s) == [t |-> "string", v |-> s]

\* !x, line 407
Falsy(x) ==
    \/ x.t \in {"undefined", "null", "NaN"}
    \/ x.t = "number" /\ x.v = 0
    \/ x.t = "string" /\ x.v = <<>>

DigitChars == <<"0", "1", "2", "3", "4", "5", "6", "7", "8", "9">>

DigitValue(c) == (CHOOSE k \in 1..10 : DigitChars[k] = c) - 1

\* the decimal digits of an integer: String(n) and `${n}`
RECURSIVE NumberToString(_)
NumberToString(n) ==
    IF n < 0 THEN <<"-">> \o NumberToString(0 - n)
    ELSE IF n < 10 THEN <<DigitChars[n + 1]>>
    ELSE NumberToString(n \div 10) \o <<DigitChars[(n % 10) + 1]>>

RECURSIVE DigitsValue(_)
DigitsValue(ds) ==
    IF ds = <<>> THEN 0
    ELSE DigitsValue(SubSeq(ds, 1, Len(ds) - 1)) * 10
         + DigitValue(ds[Len(ds)])

\* the string parseInt works on
ToStringValue(x) ==
    IF x.t = "number" THEN NumberToString(x.v)
    ELSE IF x.t = "string" THEN x.v
    ELSE IF x.t = "null" THEN <<"n", "u", "l", "l">>
    ELSE IF x.t = "NaN" THEN <<"N", "a", "N">>
    ELSE <<"u", "n", "d", "e", "f", "i", "n", "e", "d">>

\* parseInt(x), lines 426 and 434: leading blanks are skipped, then a
\* sign, then the longest run of digits; NaN when there is no digit
parseInt(x) ==
    LET s == ToStringValue(x)
        lead == Least({k \in 1..Len(s) : s[k] \notin Space} \cup {Len(s) + 1})
        signed == lead <= Len(s) /\ s[lead] \in {"-", "+"}
        from == IF signed THEN lead + 1 ELSE lead
        n == RunLen(Digit, s, from, Len(s))
        value == DigitsValue(SubSeq(s, from, from + n - 1))
    IN  IF n = 0 THEN NaN
        ELSE IF signed /\ s[lead] = "-" THEN Num(0 - value)
        ELSE Num(value)

\* req.body.query and req.body.count of the start requests
Queries == {Str(<<>>), Str(<<"c", "a", "f", "e">>), Str(<<"b", "a", "r">>)}
Counts == {Undefined, Num(0), Num(2), Str(<<"2">>)}

\* lines 18-24
InitialState ==
    [isProcessing |-> FALSE,
     currentQuery |-> Str(<<>>),
     currentCount |-> Num(0),
     startTime |-> Null,
     processId |-> Null]

Started_Idle(query, count, t1, t2) == InitialState

\* lines 424-428; t1 and t2 are the two readings of Date.now()
Started(query, count, t1, t2) ==
    [isProcessing |-> TRUE,
     currentQuery |-> query,
     currentCount |-> parseInt(count),
     startTime |-> Num(t1),
     processId |-> Str(<<"p", "r", "o", "c", "_">> \o NumberToString(t2))]

\* lines 457-461
Completed_KeepsQuery(state) == [state EXCEPT !.isProcessing = FALSE]

Completed(state) ==
    [state EXCEPT !.isProcessing = FALSE,
                  !.currentQuery = Str(<<>>),
                  !.currentCount = Num(0),
                  !.startTime = Null,
                  !.processId = Null]

AfterCatch_Stuck(state) == state

\* lines 467-471
AfterCatch(state) ==
    [state EXCEPT !.isProcessing = FALSE,
                  !.currentQuery = Str(<<>>),
                  !.currentCount = Num(0),
                  !.startTime = Null,
                  !.processId = Null]

AlreadyProcessing_Never(state) == FALSE

\* line 412
AlreadyProcessing(state) == state.isProcessing

AfterScrapePromise_AlwaysExport(resolved) == "export"

\* line 445: a resolved scrapePromise lets the handler go on to the export
\* of lines 448-452, a rejected one takes it to the catch of line 463
AfterScrapePromise(resolved) == IF resolved THEN "export" ELSE "catch"

Response_ReportsRequest(status, query, count, atSend) ==
    [status |-> status,
     query |-> IF status = 400 THEN Null ELSE query,
     valid |-> ~Falsy(query) /\ ~Falsy(count),
     busy |-> processingState.isProcessing,
     running |-> atSend.isProcessing,
     processId |-> IF status = 200 THEN atSend.processId ELSE Null,
     reported |-> IF status = 400 THEN Null ELSE query]

\* the answer to a start request, with the query of a request that passed
\* line 407 and what held when it was handled; an acceptance carries
\* processingState.processId as it is when res.json runs (line 439),
\* running tells whether a job was in progress then, and reported is the
\* query in the body of an acceptance (line 440) or a conflict (line 416)
Response(status, query, count, atSend) ==
    [status |-> status,
     query |-> IF status = 400 THEN Null ELSE query,
     valid |-> ~Falsy(query) /\ ~Falsy(count),
     busy |-> processingState.isProcessing,
     running |-> atSend.isProcessing,
     processId |-> IF status = 200 THEN atSend.processId ELSE Null,
     reported |-> IF status = 400 THEN Null ELSE atSend.currentQuery]

\* line 434: scrapeGoogleMaps is called and runs up to its first await
NewHandler ==
    [pc |-> "launch", rows |-> 0, failedAt |-> "none", pipeline |-> "running"]

\* the job ids that are polled: the ids a start may issue and one that
\* is never issued
PollIds ==
    {Str(<<"p", "r", "o", "c", "_">> \o NumberToString(t)) : t \in 1..MaxClock}
        \cup {Str(<<"p", "r", "o", "c", "_", "x">>)}

\* no poll has been answered yet
NoPoll == [processId |-> Null, status |-> "none", found |-> FALSE]

\* lines 476-525: the answer of GET /api/results/:processId
ResultsAnswer(state, exports, processId, readOk) ==
    IF state.isProcessing /\ state.processId = processId
    THEN [processId |-> processId, status |-> "processing", found |-> FALSE]
    ELSE IF ~readOk
    THEN [processId |-> processId, status |-> "error", found |-> FALSE]
    ELSE [processId |-> processId, status |-> "completed",
          found |-> Len(exports) > 0]

IdleJob ==
    /\ processingState = InitialState
    /\ now = 1
    /\ handlers = <<>>
    /\ responses = <<>>
    /\ files = <<>>
    /\ lastPoll = NoPoll

\* lines 405-409: a start request without query or count
StartBadRequest ==
    /\ Len(responses) < MaxRequests
    /\ \E query \in Queries, count \in Counts :
        /\ Falsy(query) \/ Falsy(count)
        /\ responses' = Append(responses, Response(400, query, count, processingState))
    /\ UNCHANGED <<processingState, now, handlers, files, lastPoll, notJob>>

\* lines 405-421: a start request while a job is running
StartConflict ==
    /\ Len(responses) < MaxRequests
    /\ \E query \in Queries, count \in Counts :
        /\ ~(Falsy(query) \/ Falsy(count))
        /\ AlreadyProcessing(processingState)
        /\ responses' = Append(responses, Response(429, query, count, processingState))
    /\ UNCHANGED <<processingState, now, handlers, files, lastPoll, notJob>>

\* lines 405-445: a start request is accepted; the state is set, the
\* pipeline is started, the request is answered and the handler waits
StartAccept ==
    /\ Len(responses) < MaxRequests
    /\ \E query \in Queries, count \in Counts, t2 \in now..MaxClock :
        /\ ~(Falsy(query) \/ Falsy(count))
        /\ ~AlreadyProcessing(processingState)
        /\ processingState' = Started(query, count, now, t2)
        /\ now' = t2
        /\ responses' = Append(responses, Response(200, query, count,
                                                   processingState'))
    /\ handlers' = Append(handlers, NewHandler)
    /\ UNCHANGED <<files, lastPoll, notJob>>

\* scrapePromise of handler h settles: lines 445-452 or lines 463-472
\* failedAt names the step that threw, "none" when results was returned;
\* a rejection carries no results, so the rows collected are lost with it
Settle(h, failedAt) ==
    LET resolved == failedAt = "none"
        outcome == IF resolved THEN "returned" ELSE "threw"
    IN  IF AfterScrapePromise(resolved) = "export"
        THEN /\ handlers' = [handlers EXCEPT ![h].pc = "export",
                                             ![h].failedAt = failedAt,
                                             ![h].pipeline = outcome]
             /\ UNCHANGED processingState
        ELSE /\ handlers' = [handlers EXCEPT ![h].pc = "done",
                                             ![h].rows = 0,
                                             ![h].failedAt = failedAt,
                                             ![h].pipeline = outcome]
             /\ processingState' = AfterCatch(processingState)

\* lines 190-193: puppeteer.launch, outside the try of scrapeGoogleMaps
PipeLaunch ==
    /\ \E h \in DOMAIN handlers, ok \in BOOLEAN :
        /\ handlers[h].pc = "launch"
        /\ IF ok
           THEN /\ handlers' = [handlers EXCEPT ![h].pc = "open"]
                /\ UNCHANGED processingState
           ELSE Settle(h, "launch")
    /\ UNCHANGED <<now, responses, files, lastPoll, notJob>>

\* lines 196-202: newPage and goto of the results feed
PipeOpen ==
    /\ \E h \in DOMAIN handlers, ok \in BOOLEAN :
        /\ handlers[h].pc = "open"
        /\ handlers' = [handlers EXCEPT
               ![h].pc = IF ok THEN "scrape" ELSE "close",
               ![h].failedAt = IF ok THEN "none" ELSE "open"]
    /\ UNCHANGED <<processingState, now, responses, files, lastPoll, notJob>>

\* lines 204-341: the scroll loop and the listing loop
PipeScrape ==
    /\ \E h \in DOMAIN handlers, ok \in BOOLEAN, n \in 0..MaxRows :
        /\ handlers[h].pc = "scrape"
        /\ handlers' = [handlers EXCEPT
               ![h].pc = "close",
               ![h].rows = IF ok THEN n ELSE 0,
               ![h].failedAt = IF ok THEN "none" ELSE "scrape"]
    /\ UNCHANGED <<processingState, now, responses, files, lastPoll, notJob>>

\* lines 342-344: browser.close in the finally, then scrapePromise settles
PipeClose ==
    /\ \E h \in DOMAIN handlers, ok \in BOOLEAN :
        /\ handlers[h].pc = "close"
        /\ Settle(h, IF ok THEN handlers[h].failedAt ELSE "close")
    /\ UNCHANGED <<now, responses, files, lastPoll, notJob>>

\* lines 448-461 and 348-382: the export is written and the state cleared,
\* or writeFile throws and the catch of lines 463-472 clears the state
ExportWrite ==
    /\ \E h \in DOMAIN handlers, ok \in BOOLEAN :
        /\ handlers[h].pc = "export"
        /\ handlers' = [handlers EXCEPT ![h].pc = "done"]
        /\ IF ok
           THEN /\ files' = Append(files, [job |-> h,
                                           rows |-> handlers[h].rows])
                /\ processingState' = Completed(processingState)
           ELSE /\ files' = files
                /\ processingState' = AfterCatch(processingState)
    /\ UNCHANGED <<now, responses, lastPoll, notJob>>

\* lines 476-525: a poll of the results of a job id
PollResults ==
    /\ \E processId \in PollIds, readOk \in BOOLEAN :
        lastPoll' = ResultsAnswer(processingState, files, processId, readOk)
    /\ UNCHANGED <<processingState, now, handlers, responses, files, notJob>>

\* Date.now() moves on
Tick ==
    /\ now < MaxClock
    /\ now' = now + 1
    /\ UNCHANGED <<processingState, handlers, responses, files, lastPoll, notJob>>

---------------------------------------------------------------------------
(* The specifications *)

InitEnrich == EnrichInit /\ IdleMine /\ IdleDisc /\ IdleList /\ IdleJob

NextEnrich ==
    \/ EnrichLaunch
    \/ EnrichSetup
    \/ EnrichHome
    \/ EnrichFind
    \/ EnrichInternal
    \/ EnrichReturn
    \/ EnrichClose

SpecEnrich == InitEnrich /\ [][NextEnrich]_vars

InitDisc == DiscInit /\ IdleMine /\ IdleEnrich /\ IdleList /\ IdleJob

NextDisc ==
    \/ ScrollNoPanel
    \/ ScrollRound
    \/ GraceWait
    \/ ScrollsExhausted
    \/ Collect

SpecDisc == InitDisc /\ [][NextDisc]_vars

\* every awaited operation of the loop settles
FairSpecDisc == SpecDisc /\ WF_vars(NextDisc)

InitList == ListInit /\ IdleMine /\ IdleEnrich /\ IdleJob

NextList ==
    \/ ProcessListing
    \/ ListReturn
    \/ ListClose

SpecList == InitList /\ [][NextList]_vars

InitRun == RunInit /\ IdleMine /\ IdleJob

NextRun ==
    \/ RunListingNoEnrich
    \/ RunEnrichCall
    \/ NextEnrich
    \/ RunEnrichDone
    \/ ListReturn
    \/ ListClose

SpecRun == InitRun /\ [][NextRun]_vars

InitMine == MineInit /\ IdleEnrich /\ IdleDisc /\ IdleList /\ IdleJob

NextMine == ExtractFromPageOk \/ ExtractFromPageFail

SpecMine == InitMine /\ [][NextMine]_vars

InitJob == IdleJob /\ IdleMine /\ IdleEnrich /\ IdleDisc /\ IdleList

\* the steps that the event loop takes on its own
Progress ==
    \/ PipeLaunch
    \/ PipeOpen
    \/ PipeScrape
    \/ PipeClose
    \/ ExportWrite

NextJob ==
    \/ StartBadRequest
    \/ StartConflict
    \/ StartAccept
    \/ Progress
    \/ Tick

SpecJob == InitJob /\ [][NextJob]_vars

\* every awaited operation settles and its continuation is run
FairSpecJob == SpecJob /\ WF_vars(Progress)

\* the jobs of SpecJob, polled through GET /api/results/:processId
NextPoll == NextJob \/ PollResults

SpecPoll == InitJob /\ [][NextPoll]_vars


---------------------------------------------------------------------------
(* Claims about the job state *)

Active(h) == handlers[h].pc # "done"

Accepted == {k \in DOMAIN responses : responses[k].status = 200}

Exports(h) == {f \in DOMAIN files : files[f].job = h}

\* C1: at most one job is running; a valid start request is accepted if
\* and only if the state was idle when it was handled and gets a conflict
\* if and only if a job was running; only accepted requests ever run
C1_SingleFlight ==
    /\ Cardinality({h \in DOMAIN handlers : Active(h)}) <= 1
    /\ processingState.isProcessing <=> \E h \in DOMAIN handlers : Active(h)
    /\ \A k \in DOMAIN responses :
        /\ responses[k].status = 200
               <=> (responses[k].valid /\ ~responses[k].busy)
        /\ responses[k].status = 429
               <=> (responses[k].valid /\ responses[k].busy)
    /\ Len(handlers) = Cardinality(Accepted)

\* a request accepted in idle, the next one refused while the job runs
C1_Witness ==
    /\ Len(responses) >= 2
    /\ responses[1].status = 200
    /\ responses[2].status = 429
    /\ Len(handlers) = 1
    /\ Active(1)

\* C2: a running job state always becomes idle again, however the
\* pipeline run or the export ends
C2_EventuallyIdle ==
    processingState.isProcessing ~> ~processingState.isProcessing

\* a job whose pipeline threw, then a job accepted after it whose export
\* threw, and the state is idle again
C2_Witness ==
    /\ Len(handlers) = 2
    /\ handlers[1].pipeline = "threw"
    /\ handlers[2].pipeline = "returned" /\ Exports(2) = {}
    /\ \A h \in 1..2 : ~Active(h)
    /\ ~processingState.isProcessing

\* C3: a job whose pipeline run threw has ended, left the state idle and
\* wrote no export; an export holds the list that the pipeline returned
\* and a job has at most one
C3_NoExportOnFailure ==
    /\ \A h \in DOMAIN handlers :
        handlers[h].pipeline = "threw" =>
            /\ ~Active(h)
            /\ Exports(h) = {}
            /\ h = Len(handlers) => ~processingState.isProcessing
    /\ \A f \in DOMAIN files :
        /\ handlers[files[f].job].pipeline = "returned"
        /\ files[f].rows = handlers[files[f].job].rows
    /\ \A h \in DOMAIN handlers : Cardinality(Exports(h)) <= 1

\* one job failed at the launch, the next at the opening of the feed
C3_Witness ==
    /\ Len(handlers) = 2
    /\ handlers[1].pipeline = "threw" /\ handlers[1].failedAt = "launch"
    /\ handlers[2].pipeline = "threw" /\ handlers[2].failedAt = "open"
    /\ files = <<>>
    /\ ~processingState.isProcessing

\* a step that ends a pipeline run, or takes the state back to idle, starts
\* in a state where the job's acceptance is among the responses
AckedBeforeEnd ==
    /\ \A h \in DOMAIN handlers :
           (handlers[h].pipeline = "running"
                /\ handlers'[h].pipeline # "running")
               => Cardinality(Accepted) >= h
    /\ (processingState.isProcessing /\ ~processingState'.isProcessing)
           => \E k \in Accepted :
                  responses[k].processId = processingState.processId

\* C15: the acceptance of a start request carries the job's id and is
\* sent while the state is running; it is sent before the job's pipeline
\* run ends and before the state returns to idle.
C15_AckBeforeCompletion ==
    /\ [](\A k \in Accepted :
              responses[k].running /\ responses[k].processId # Null)
    /\ [][AckedBeforeEnd]_vars

\* the acceptance is out, its job is running and its pipeline has not yet
\* got its browser
C15_Witness ==
    /\ Len(handlers) = 1
    /\ handlers[1].pc = "launch"
    /\ responses # <<>>
    /\ responses[Len(responses)].status = 200
    /\ responses[Len(responses)].processId = processingState.processId
    /\ processingState.isProcessing

\* the handler of the job that the k-th response accepted
JobOf(k) == Cardinality({j \in Accepted : j <= k})

\* the jobs that were given this id
JobsWithId(processId) ==
    {JobOf(k) : k \in {j \in Accepted : responses[j].processId = processId}}

\* what the claim wants a poll of this id to answer in the current state
ExpectedPoll(processId) ==
    IF JobsWithId(processId) = {} THEN "unknown"
    ELSE IF processingState.isProcessing
            /\ processingState.processId = processId THEN "processing"
    ELSE IF \E h \in JobsWithId(processId) : Exports(h) # {} THEN "completed"
    ELSE "failed"

\* C16: a poll answers running exactly when the polled id is the id of
\* the job in progress, completed only for an id whose job has finished
\* and written its export, and unknown for an id that was never issued.
C16_PollOutcomes ==
    [][(lastPoll' # lastPoll /\ lastPoll'.status # "error") =>
           LET expected == ExpectedPoll(lastPoll'.processId)
           IN  /\ lastPoll'.status = "processing" <=> expected = "processing"
               /\ lastPoll'.status = "completed" => expected = "completed"
               /\ expected = "unknown" => lastPoll'.status = "unknown"
      ]_vars

\* the acceptance of the job started last
LastAccepted == responses[CHOOSE k \in Accepted : \A j \in Accepted : j <= k]

\* `proc_${t}` for a reading t of the clock not before the start time
IsJobId(id, startTime) ==
    \E t \in startTime.v..MaxClock :
        id = Str(<<"p", "r", "o", "c", "_">> \o NumberToString(t))

\* C21: between handlers the job state is whole: idle with an empty
\* query, a count of 0 and no start time or job id, or running with the
\* query of the request accepted last, a start time and the job id that
\* its acceptance carried.
C21_JobStateConsistent ==
    IF processingState.isProcessing
    THEN /\ Accepted # {}
         /\ processingState.currentQuery = LastAccepted.query
         /\ ~Falsy(processingState.currentQuery)
         /\ processingState.startTime.t = "number"
         /\ processingState.startTime.v \in 1..now
         /\ IsJobId(processingState.processId, processingState.startTime)
         /\ processingState.processId = LastAccepted.processId
    ELSE /\ processingState.currentQuery = Str(<<>>)
         /\ processingState.currentCount = Num(0)
         /\ processingState.startTime = Null
         /\ processingState.processId = Null

\* a first job has ended in idle and a second one is running with the
\* other query
C21_Witness ==
    /\ Len(handlers) = 2
    /\ ~Active(1) /\ Active(2)
    /\ processingState.isProcessing
    /\ processingState.currentQuery = Str(<<"b", "a", "r">>)
    /\ responses[1].query = Str(<<"c", "a", "f", "e">>)

\* a step that answers a start request with a refusal
Refusal ==
    /\ Len(responses') = Len(responses) + 1
    /\ responses'[Len(responses')].status \in {400, 429}

\* what a refusal leaves alone and what a conflict reports
RefusalFrame ==
    Refusal =>
        /\ processingState' = processingState
        /\ handlers' = handlers
        /\ files' = files
        /\ responses'[Len(responses')].status = 429 =>
               /\ Accepted # {}
               /\ responses'[Len(responses')].reported = LastAccepted.query
               /\ responses'[Len(responses')].reported
                      = processingState.currentQuery

\* C22: a start request refused with a conflict or for a missing query or
\* count changes no attribute of the job state and starts no pipeline
\* run; the conflict reports the query of the job in progress.
C22_RefusalChangesNothing == [][RefusalFrame]_vars

\* a job for one query is running and a request for another query got a
\* conflict that reports the first
C22_Witness ==
    /\ Len(responses) = 2
    /\ responses[1].status = 200
    /\ responses[2].status = 429
    /\ responses[2].query # responses[1].query
    /\ responses[2].reported = responses[1].query
    /\ processingState.isProcessing
    /\ processingState.currentQuery = responses[1].query
    /\ Len(handlers) = 1

---------------------------------------------------------------------------
(* Claims about extractFromPage *)

\* what the spec's e-mail filter rejects
Rejected(email) ==
    LET lower == toLowerCase(email)
    IN  \/ endsWith(lower, <<".", "p", "n", "g">>)
        \/ endsWith(lower, <<".", "j", "p", "g">>)
        \/ endsWith(lower, <<".", "j", "p", "e", "g">>)
        \/ includes(lower, <<"e", "x", "a", "m", "p", "l", "e">>)
        \/ includes(lower, <<"t", "e", "s", "t", "@">>)

\* the content of the spec's example
C10_Example ==
    <<"s", "a", "l", "e", "s", "[", "a", "t", "]", "e", "x", "a", "m", "p", "l", "e", "[", "d", "o", "t", "]", "c", "o", "m", " ", "i", "n", "f", "o", "[", "a", "t", "]", "f", "i", "r", "m", "[", "d", "o", "t", "]", "o", "r", "g">>

\* C10: no e-mail returned by mining a page, from the plain pass or from the
\* de-obfuscated pass, ends in .png/.jpg/.jpeg, contains "example" or
\* contains "test@"; for the content sales[at]example[dot]com
\* info[at]firm[dot]org the e-mails returned are exactly {info@firm.org}.
C10_EmailFilter ==
    mpc = "returned" =>
        /\ \A e \in Range(mined.emails) : ~Rejected(e)
        /\ html = C10_Example =>
               Range(mined.emails) = {<<"i", "n", "f", "o", "@", "f", "i", "r", "m", ".", "o", "r", "g">>}

\* the words of a content: its pieces between blanks
RECURSIVE Words(_)
Words(s) ==
    IF s = <<>> THEN <<>>
    ELSE LET stop == Least({k \in 1..Len(s) : s[k] \in Space} \cup {Len(s) + 1})
         IN  (IF stop > 1 THEN <<SubSeq(s, 1, stop - 1)>> ELSE <<>>)
             \o Words(SubSeq(s, stop + 1, Len(s)))

\* an Instagram link as it stands in the content, with its whole path
IsInstagramLink(word) ==
    includes(toLowerCase(word),
             <<"i", "n", "s", "t", "a", "g", "r", "a", "m", ".", "c", "o", "m", "/">>)

\* the raw Instagram links of a content, absolute, first occurrences
RawInstagram(content) ==
    LET links == SelectSeq(Words(content), IsInstagramLink)
    IN  Dedup([k \in 1..Len(links) |-> Absolute(links[k])])

\* a link to a post, a reel, a video or a story
NonProfile(link) ==
    \/ includes(link, <<"/", "p", "/">>)
    \/ includes(link, <<"/", "r", "e", "e", "l", "/">>)
    \/ includes(link, <<"/", "t", "v", "/">>)
    \/ includes(link, <<"/", "s", "t", "o", "r", "i", "e", "s", "/">>)

ProfileRoot(link) == ~NonProfile(link)

\* C11: mining a page whose content has a profile-root Instagram link
\* returns exactly the profile-root links of the content (no link to a
\* /p/, /reel/, /tv/ or /stories/ path, whole or cut); mining a page whose
\* content has only non-profile links returns exactly the first raw link.
C11_InstagramProfileOnly ==
    mpc = "returned" =>
        LET raw == RawInstagram(html)
            roots == SelectSeq(raw, ProfileRoot)
        IN  IF roots # <<>>
            THEN Range(mined.instagram) = Range(roots)
            ELSE IF raw # <<>> THEN mined.instagram = <<raw[1]>>
            ELSE mined.instagram = <<>>


---------------------------------------------------------------------------
(* Claims about extractContactInfoFromWebsite *)

\* a sufficient bundle: every channel has an entry
Sufficient(info) ==
    info.emails # <<>> /\ info.facebook # <<>> /\ info.instagram # <<>>

\* the call has reached its return statement (lines 72, 75)
EnrichReturned == epc \in {"closing", "returned"}

\* C6: internal pages are looked for and mined only when
\* visitInternalPages is true and the homepage bundle lacks one of
\* emails, facebook, instagram; with a sufficient homepage bundle the
\* renderer is invoked exactly once and the homepage bundle is returned.
C6_EarlyExit ==
    /\ (findCalls > 0 \/ Len(minedLog) > 1) =>
           visitInternalPages /\ ~Sufficient(homeBundle)
    /\ (EnrichReturned /\ Sufficient(homeBundle)) =>
           renderCalls = 1 /\ enrichResult = homeBundle

\* C6's case: a sufficient homepage with candidate links and internal
\* pages wanted; the call returns after one render
C6_Witness ==
    /\ epc = "returned"
    /\ visitInternalPages
    /\ Sufficient(homeBundle)
    /\ \E k \in DOMAIN anchors : CandidateAnchor[anchors[k]]
    /\ renderCalls = 1
    /\ enrichResult = homeBundle

\* the place of the first anchor with this href on the homepage
FirstAnchor(a) == Least({k \in DOMAIN anchors : anchors[k] = a})

\* C7: one call mines at most 3 internal pages, one after another in
\* candidate order (the order of the candidates' first anchors).
C7_InternalCap ==
    /\ Len(minedLog) <= 1 + 3
    /\ \A k \in 2..Len(minedLog) : minedLog[k].url = internalPages[k - 1]
    /\ \A k \in DOMAIN internalPages :
           /\ internalPages[k] \in Range(anchors)
           /\ CandidateAnchor[internalPages[k]]
    /\ \A j, k \in DOMAIN internalPages :
           j < k => FirstAnchor(internalPages[j]) < FirstAnchor(internalPages[k])

\* C7's case: four candidates, three of them mined
C7_Witness ==
    /\ epc = "returned"
    /\ Len(internalPages) = 4
    /\ Len(minedLog) = 4

\* what a mined page contributes: its contacts, or nothing when it failed
Contribution(entry) ==
    IF ~entry.ok THEN EmptyBundle
    ELSE IF entry.url = HomePage THEN PageBundle[homeHtml]
    ELSE PageBundle[SiteContent(entry.url)]

\* one channel of the pages mined so far, in order
RECURSIVE Contributed(_, _)
Contributed(channel, n) ==
    IF n = 0 THEN <<>>
    ELSE Contributed(channel, n - 1) \o Contribution(minedLog[n])[channel]

\* C8: a page that fails contributes an empty bundle; what the other pages
\* contributed is kept, the remaining candidates are still mined, and the
\* call returns the merged bundle.
C8_PageIsolation ==
    (EnrichReturned /\ minedLog # <<>>) =>
        /\ Len(minedLog) =
               1 + (IF visitInternalPages /\ ~Sufficient(homeBundle)
                    THEN Len(slice(internalPages, 3)) ELSE 0)
        /\ \A channel \in {"emails", "facebook", "instagram"} :
               enrichResult[channel] =
                   Dedup(Contributed(channel, Len(minedLog)))

\* C8's case: the second of three mined pages failed, the pages before
\* and after it contributed
C8_Witness ==
    /\ epc = "returned"
    /\ Len(minedLog) = 4
    /\ minedLog[1].ok /\ ~minedLog[2].ok /\ ~minedLog[3].ok /\ minedLog[4].ok
    /\ homeBundle.emails # <<>>
    /\ Contribution(minedLog[4]).instagram # <<>>
    /\ enrichResult.emails = homeBundle.emails
    /\ enrichResult.instagram = Contribution(minedLog[4]).instagram

\* a link whose path is or begins with p, reel, tv or stories: the
\* address of posts, reels, videos and stories, not of a profile
PostLink(link) == NonProfile(Append(link, "/"))

\* C12: the instagram set of the bundle enrich returns is empty, or holds
\* only profile-root links, or holds exactly one link, a non-profile one; a
\* non-profile link never stands beside a profile-root link or beside a
\* second non-profile link.
C12_InstagramInvariant ==
    EnrichReturned =>
        LET links == enrichResult.instagram
        IN  \/ links = <<>>
            \/ \A k \in DOMAIN links : ~PostLink(links[k])
            \/ Len(links) = 1


\* no two entries of a list of e-mails are equal up to letter case
NoCaseDuplicates(list) ==
    \A j, k \in DOMAIN list :
        toLowerCase(list[j]) = toLowerCase(list[k]) => j = k

\* C13: neither the bundle mined from one page nor the merged bundle that
\* enrich returns holds two e-mails that differ only in letter case.
C13_EmailsCaseInsensitive ==
    /\ mpc = "returned" => NoCaseDuplicates(mined.emails)
    /\ EnrichReturned => NoCaseDuplicates(enrichResult.emails)


\* the bundle merged from the first n pages mined has every channel
SufficientAfter(n) ==
    \A channel \in {"emails", "facebook", "instagram"} :
        Contributed(channel, n) # <<>>

\* C20: no page is mined in an enrich call once the bundle merged from the
\* pages mined before it, homepage and internal pages, is sufficient.
C20_EarlyExitThroughout ==
    \A k \in 2..Len(minedLog) : ~SufficientAfter(k - 1)

---------------------------------------------------------------------------
(* Claims about the scroll loop *)

\* the feed was there in every round and every count read so far was the
\* same value below the target
StalledRun ==
    polls >= 1 /\ stalled /\ ~panelMissing /\ polled < targetCount

\* C4: with a feed whose count is the same value below the target in every
\* round, the loop stops after at most 3 rounds with exactly one extended
\* wait, and the stubs then emitted are the ones that were loaded.
C4_StalledFeedConverges ==
    StalledRun =>
        /\ polls <= 3
        /\ graceWaits <= 1
        /\ polls = 3 => dpc \in {"collect", "done"}
        /\ dpc \in {"collect", "done"} => graceWaits = 1
        /\ dpc = "done" =>
               /\ Len(StubsToProcess(businesses, targetCount)) = polled
               /\ StubsToProcess(businesses, targetCount)
                      = [k \in DOMAIN feed |-> Stub(feed[k])]

\* C4's case: the count was 2 in each of three rounds with a target of 3
C4_Witness ==
    /\ dpc = "done"
    /\ StalledRun
    /\ targetCount = 3
    /\ polled = 2
    /\ polls = 3
    /\ graceWaits = 1
    /\ Len(businesses) = 2

\* C5: the stubs the pipeline processes have pairwise different links, and
\* there are at most min(loadedCount, targetCount) of them, even when the
\* feed holds several entries with the same link.
C5_DedupTruncated ==
    dpc = "done" =>
        LET stubs == StubsToProcess(businesses, targetCount)
        IN  /\ \A j, k \in DOMAIN stubs : j # k => stubs[j].link # stubs[k].link
            /\ Len(stubs) <= Len(businesses)
            /\ Len(stubs) <= targetCount

\* a step that is one round of the loop
Round == polls' = polls + 1

\* the count of this round is the count of the round before it (0 before
\* the first round)
NoGrowthNow == polled' = polled

\* the round before this one had the count of the round before it
NoGrowthBefore == polls >= 1 /\ polled = prevPolled

\* what a round below the target does
StallRule ==
    (Round /\ polled' < targetCount) =>
        /\ dpc' = "collect" <=> (NoGrowthNow /\ NoGrowthBefore)
        /\ (NoGrowthNow /\ ~NoGrowthBefore) =>
               dpc' = "grace" /\ graceWaits' = graceWaits + 1
        /\ ~NoGrowthNow => dpc' = "loop" /\ noNewResultsCount' = 0

\* C17: below the target, a round stops discovery if and only if its
\* count and the count of the round before it both equal their
\* predecessor's; the first round without growth is followed by the
\* extended wait and a retry, and a round whose count changed sets the
\* no-growth counter to zero.
C17_StallHandling == [][StallRule]_vars

\* C17's case: no growth, growth, no growth, no growth: the loop waited
\* twice and stopped in the fourth round
C17_Witness ==
    /\ dpc = "collect"
    /\ polls = 4
    /\ graceWaits = 2
    /\ polled < targetCount
    /\ ~panelMissing

\* C18: discovery ends; it takes at most 20 rounds, goes on to a next
\* round only while the count is below the target, and when the feed panel
\* is absent it stops and emits the entries that are loaded.
C18_DiscoveryTerminates ==
    /\ <>(dpc = "done")
    /\ [](/\ polls <= 20
          /\ (polls >= 1 /\ dpc \in {"loop", "grace"}) => polled < targetCount
          /\ panelMissing => dpc \in {"collect", "done"}
          /\ dpc = "done" =>
                 businesses = [k \in DOMAIN feed |-> Stub(feed[k])])

\* C18's case: the count changed in every round and never reached the
\* target; the cap ended the loop
C18_Witness ==
    /\ dpc = "done"
    /\ polls = 20
    /\ polled < targetCount
    /\ ~panelMissing

---------------------------------------------------------------------------
(* Claims about the listing loop *)

\* C9: a run that does not fail at job level returns exactly one record per
\* processed stub, in stub order, min(loadedCount, targetCount) records; the
\* record of a listing whose processing failed has the stub's name and maps
\* link and every other field empty, and the next listings are processed.
C9_OneRecordPerStub ==
    lpc = "returned" =>
        LET stubs == StubsToProcess(businesses, targetCount)
        IN  /\ Len(stubs) \in {Len(businesses), targetCount}
            /\ Len(stubs) <= Len(businesses) /\ Len(stubs) <= targetCount
            /\ Len(results) = Len(stubs)
            /\ Len(outcomes) = Len(stubs)
            /\ \A k \in DOMAIN results :
                   /\ results[k].name = stubs[k].name
                   /\ results[k].maps_link = stubs[k].link
                   /\ outcomes[k] # "none" =>
                          results[k] = EmptyRecord(stubs[k])

\* what the listing's page held, less the field whose extraction failed
Kept(detail, failAt) ==
    IF failAt = "phone" THEN [detail EXCEPT !.phone = ""]
    ELSE IF failAt = "website" THEN [detail EXCEPT !.website = ""]
    ELSE IF failAt = "rating" THEN [detail EXCEPT !.rating = "", !.reviews = ""]
    ELSE detail

\* C19: when the extraction of one field of a listing fails (phone,
\* website, or rating and review count), the listing's record has that
\* field empty and keeps the other fields the page held, and its contacts
\* are those of the website when the website was extracted.
C19_FieldIndependence ==
    (outcomes # <<>> /\ outcomes[Len(outcomes)] \in {"phone", "website", "rating"}) =>
        LET kept == Kept(extracted.detail, outcomes[Len(outcomes)])
        IN  results[Len(results)] =
                FullRecord(businesses[listI], kept,
                           ContactInfoFor(kept, extracted.enrich))

---------------------------------------------------------------------------
(* Claims about the rendering sessions of a run *)

\* the browser of scrapeGoogleMaps, launched at line 190 and closed at
\* line 343, is open
ScrapeSessionOpen == lpc \in {"loop", "enriching", "closing"}

\* the browser of extractContactInfoFromWebsite, launched at line 33 and
\* closed at line 77, is open
EnrichSessionOpen == epc \in {"setup", "home", "find", "loop", "closing"}

\* C14: at every point of a pipeline run at most one headless rendering
\* session is open, also while a listing's website is being enriched.
C14_OneSessionAtATime == ~(ScrapeSessionOpen /\ EnrichSessionOpen)

===========================================================================
